---- MODULE Spec2Model ----
(***************************************************************************)
(* Model of workflows/purge.go: the stack inventory filters, the bucket    *)
(* termination workflow and the purge orchestrator.                        *)
(*                                                                         *)
(* A stack is a record [name, status, tags].  A status is the sequence of  *)
(* the words of the CloudFormation status string (the words between the    *)
(* underscores), so that equality and strings.HasSuffix are computed on    *)
(* the text.  Tags is a function whose domain is the set of keys present;  *)
(* reading a missing key yields the empty string, as a Go map read does.   *)
(***************************************************************************)
EXTENDS Integers, Sequences, FiniteSets, TLC

VARIABLES
    pc,          \* position of the purge run: "start", "run", "halt", "done"
    listed,      \* the slice ListStacks returned
    listErr,     \* whether ListStacks returned an error
    stacks,      \* purgeWorker's stacks, after removeStacksByStatus
    rows,        \* rows appended to the progress table
    rendered,    \* table.Render() was called
    stackCount,  \* purgeWorker's stackCount
    executors,   \* the assembled plan
    reported,    \* the counts of the final log.Infof, <<stacks, steps>>
    idx,         \* index of the plan step the composite runs next
    executed,    \* plan steps that have returned, each with its error
    bpc,         \* position inside the running bucketTerminator
    bres,        \* resources resolved by the running bucketTerminator
    bi,          \* loop index of the running bucketTerminator
    calls,       \* calls issued by the run outside bucketTerminator, in order
    bcalls,      \* calls issued by the running bucketTerminator, in order
    nfail,       \* how many collaborator calls have failed so far
    log,         \* warning and error log entries, in order
    compErr,     \* whether the plan's composite returned an error
    result,      \* what the executor built by NewPurge returned
    fin,         \* filter harness: the inputs of the pure function
    fout,        \* filter harness: its result
    fpc,         \* filter harness: which function has been applied
    cin,         \* composite harness: the builder and its members' outcomes
    cnext,       \* composite harness: the member the composite runs next
    cran,        \* composite harness: the members that have run, in order
    cret         \* composite harness: what the composite returned

vars == <<pc, listed, listErr, stacks, rows, rendered, stackCount, executors,
          reported, idx, executed, bpc, bres, bi, calls, bcalls, nfail, log,
          compErr, result, fin, fout, fpc, cin, cnext, cran, cret>>

purgeVars == <<pc, listed, listErr, stacks, rows, rendered, stackCount,
               executors, reported, idx, executed, bpc, bres, bi, calls,
               bcalls, nfail, log, compErr, result>>

filterVars == <<fin, fout, fpc>>

compositeVars == <<cin, cnext, cran, cret>>

-----------------------------------------------------------------------------
(* Bounds *)

\* the stacks of an inventory
MaxStacks == 2
\* the physical resources of a bucket stack
MaxResources == 2
\* the failing calls in the run of a plan of several steps (the run of a lone
\* bucket workflow is explored with every call free to fail)
MaxFailures == 1
\* the stacks ListStacks hands back together with an error
MaxPartial == 1
\* the statuses of an exclusion list
MaxStatuses == 2

MaxMembers == 4

-----------------------------------------------------------------------------
(* Values *)

StackStatusRollbackComplete == <<"ROLLBACK", "COMPLETE">>
StatusCreateComplete == <<"CREATE", "COMPLETE">>
StatusUpdateRollbackComplete == <<"UPDATE", "ROLLBACK", "COMPLETE">>
StatusDeleteComplete == <<"DELETE", "COMPLETE">>
StatusDeleteFailed == <<"DELETE", "FAILED">>

StackTypeService == "service"
StackTypeEnv == "environment"
StackTypePipeline == "pipeline"
StackTypeBucket == "bucket"
StackTypeDatabase == "database"

EmptyTags == [k \in {} |-> ""]

\* Go map read: the value, or "" when the key is absent
TagGet(tags, key) == IF key \in DOMAIN tags THEN tags[key] ELSE ""

\* the ok of `v, ok := tags[key]`
TagHas(tags, key) == key \in DOMAIN tags

Range(s) == {s[i] : i \in 1..Len(s)}

-----------------------------------------------------------------------------
(* Stack inventory filter *)

\* inner loop of removeStacksByStatus: found is set when any status matches
StatusFound(stack, statuses) ==
    \E i \in 1..Len(statuses) : stack.status = statuses[i]

\* found overwritten by every comparison: only the last status counts
StatusFoundLastOnly(stack, statuses) ==
    Len(statuses) > 0 /\ stack.status = statuses[Len(statuses)]

RECURSIVE removeStacksByStatusFrom(_, _, _, _)
removeStacksByStatusFrom(ss, statuses, i, ret) ==
    IF i > Len(ss) THEN ret
    ELSE removeStacksByStatusFrom(ss, statuses, i + 1,
            IF StatusFound(ss[i], statuses) THEN ret ELSE Append(ret, ss[i]))

RECURSIVE removeStacksByStatusLastFrom(_, _, _, _)
removeStacksByStatusLastFrom(ss, statuses, i, ret) ==
    IF i > Len(ss) THEN ret
    ELSE removeStacksByStatusLastFrom(ss, statuses, i + 1,
            IF StatusFoundLastOnly(ss[i], statuses) THEN ret
            ELSE Append(ret, ss[i]))

removeStacksByStatusLastOnly(ss, statuses) ==
    removeStacksByStatusLastFrom(ss, statuses, 1, <<>>)

removeStacksByStatus(ss, statuses) ==
    removeStacksByStatusFrom(ss, statuses, 1, <<>>)

RECURSIVE filterStacksByTypeFrom(_, _, _, _)
filterStacksByTypeFrom(ss, stackType, i, ret) ==
    IF i > Len(ss) THEN ret
    ELSE filterStacksByTypeFrom(ss, stackType, i + 1,
            IF TagGet(ss[i].tags, "type") = stackType
            THEN Append(ret, ss[i]) ELSE ret)

\* the matching stacks returned last first
RECURSIVE filterStacksByTypeReversedFrom(_, _, _, _)
filterStacksByTypeReversedFrom(ss, stackType, i, ret) ==
    IF i > Len(ss) THEN ret
    ELSE filterStacksByTypeReversedFrom(ss, stackType, i + 1,
            IF TagGet(ss[i].tags, "type") = stackType
            THEN <<ss[i]>> \o ret ELSE ret)

filterStacksByTypeReversed(ss, stackType) ==
    filterStacksByTypeReversedFrom(ss, stackType, 1, <<>>)

filterStacksByType(ss, stackType) ==
    filterStacksByTypeFrom(ss, stackType, 1, <<>>)

-----------------------------------------------------------------------------
(* Inputs *)

\* the tags of the stacks of an inventory: a service, two environments, a
\* pipeline, a bucket, a stack of a kind that is not wired (database) and a
\* stack without tags
ServiceTags ==
    ("type" :> StackTypeService) @@ ("service" :> "web")
        @@ ("environment" :> "prod")

EnvTags(env) == ("type" :> StackTypeEnv) @@ ("environment" :> env)

PipelineTags == ("type" :> StackTypePipeline) @@ ("service" :> "web")

BucketTags == ("type" :> StackTypeBucket)

DatabaseTags == ("type" :> StackTypeDatabase) @@ ("environment" :> "prod")

Statuses == {StatusCreateComplete, StackStatusRollbackComplete,
             StatusUpdateRollbackComplete}

\* every kind of stack, created; an environment whose last update was rolled
\* back; an environment whose creation was rolled back
StackBodies ==
    [status : {StatusCreateComplete},
     tags : {ServiceTags, EnvTags("prod"), PipelineTags, BucketTags,
             DatabaseTags, EmptyTags}]
    \cup [status : {StatusUpdateRollbackComplete}, tags : {EnvTags("stage")}]
    \cup [status : {StackStatusRollbackComplete}, tags : {EnvTags("stage")}]

\* stack names are unique: the stack at position i has the i-th name
StackNames == <<"stack1", "stack2", "stack3", "stack4", "stack5", "stack6">>

Named(bodies) ==
    [i \in 1..Len(bodies) |->
        [name |-> StackNames[i], status |-> bodies[i].status,
         tags |-> bodies[i].tags]]

SeqsUpTo(S, n) == UNION {[1..k -> S] : k \in 0..n}

Inventories == {Named(b) : b \in SeqsUpTo(StackBodies, MaxStacks)}

\* what comes back with an error: nothing, or the stacks listed before the
\* listing broke off (up to MaxPartial of them)
PartialInventories == {Named(b) : b \in SeqsUpTo(StackBodies, MaxPartial)}

\* what ListStacks hands back: a slice of stacks and an error; purgeWorker goes
\* on with the slice whether or not the error is nil
ListStacksResults ==
    [stacks : Inventories, err : {FALSE}]
        \cup [stacks : PartialInventories, err : {TRUE}]

\* what GetResourcesForStack hands back for a stack: its physical resource
\* ids, or an error
ResourceIds(name, r) == [j \in 1..r |-> <<name, j>>]

ResourceResults(name) ==
    {[ids |-> ResourceIds(name, r), err |-> FALSE] : r \in 0..MaxResources}
        \cup {[ids |-> <<>>, err |-> TRUE]}

\* what AwaitFinalStatus hands back: nil, or the stack in a terminal status:
\* deleted, not deleted, or left where a rolled back update had put it
AwaitResults ==
    {[nil |-> TRUE, status |-> <<>>],
     [nil |-> FALSE, status |-> StatusDeleteComplete],
     [nil |-> FALSE, status |-> StatusDeleteFailed],
     [nil |-> FALSE, status |-> StatusUpdateRollbackComplete]}

-----------------------------------------------------------------------------
(* Plan assembly *)

Step(fn, arg, stack) == [fn |-> fn, arg |-> arg, owner |-> stack.name]

Namespace == "mu"

\* the service tag handed to both steps
ServiceStepsServiceTagTwice(stack) ==
    << Step("serviceInput", TagGet(stack.tags, "service"), stack),
       Step("serviceUndeployer", TagGet(stack.tags, "service"), stack) >>

ServiceSteps(stack) ==
    << Step("serviceInput", TagGet(stack.tags, "service"), stack),
       Step("serviceUndeployer", TagGet(stack.tags, "environment"), stack) >>

EnvironmentFns ==
    << "environmentServiceTerminator", "environmentDbTerminator",
       "environmentEcsTerminator", "environmentConsulTerminator",
       "environmentRolesetTerminator", "environmentElbTerminator",
       "environmentVpcTerminator" >>

\* the network torn down before the load balancer
EnvironmentFnsVpcEarly ==
    << "environmentServiceTerminator", "environmentDbTerminator",
       "environmentEcsTerminator", "environmentConsulTerminator",
       "environmentRolesetTerminator", "environmentVpcTerminator",
       "environmentElbTerminator" >>

EnvironmentStepsVpcEarly(stack) ==
    [k \in 1..Len(EnvironmentFnsVpcEarly) |->
        Step(EnvironmentFnsVpcEarly[k], TagGet(stack.tags, "environment"),
             stack)]

EnvironmentSteps(stack) ==
    [k \in 1..Len(EnvironmentFns) |->
        Step(EnvironmentFns[k], TagGet(stack.tags, "environment"), stack)]

\* the pipeline's roles removed before the pipeline itself
PipelineStepsRolesetEarly(stack) ==
    << Step("serviceFinder", TagGet(stack.tags, "service"), stack),
       Step("pipelineRolesetTerminator", "", stack),
       Step("pipelineTerminator", Namespace, stack) >>

PipelineSteps(stack) ==
    << Step("serviceFinder", TagGet(stack.tags, "service"), stack),
       Step("pipelineTerminator", Namespace, stack),
       Step("pipelineRolesetTerminator", "", stack) >>

BucketSteps(stack) ==
    << Step("bucketTerminator", stack.name, stack) >>

RECURSIVE ServiceLoop(_, _, _)
ServiceLoop(ss, i, execs) ==
    IF i > Len(ss) THEN execs
    ELSE ServiceLoop(ss, i + 1, execs \o ServiceSteps(ss[i]))

RECURSIVE EnvironmentLoop(_, _, _)
EnvironmentLoop(ss, i, execs) ==
    IF i > Len(ss) THEN execs
    ELSE EnvironmentLoop(ss, i + 1, execs \o EnvironmentSteps(ss[i]))

RECURSIVE PipelineLoop(_, _, _)
PipelineLoop(ss, i, execs) ==
    IF i > Len(ss) THEN execs
    ELSE PipelineLoop(ss, i + 1, execs \o PipelineSteps(ss[i]))

\* every workflow bound to the stack the loop ends on
RECURSIVE BucketLoopLastStack(_, _, _)
BucketLoopLastStack(ss, i, execs) ==
    IF i > Len(ss) THEN execs
    ELSE BucketLoopLastStack(ss, i + 1,
            execs \o <<Step("bucketTerminator", ss[Len(ss)].name, ss[i])>>)

RECURSIVE BucketLoop(_, _, _)
BucketLoop(ss, i, execs) ==
    IF i > Len(ss) THEN execs
    ELSE BucketLoop(ss, i + 1, execs \o BucketSteps(ss[i]))

\* one pass over the inventory, each stack's steps appended where it stands
RECURSIVE InventoryOrderLoop(_, _, _)
InventoryOrderLoop(ss, i, execs) ==
    IF i > Len(ss) THEN execs
    ELSE LET t == TagGet(ss[i].tags, "type")
             more == IF t = StackTypeService THEN ServiceSteps(ss[i])
                     ELSE IF t = StackTypeEnv THEN EnvironmentSteps(ss[i])
                     ELSE IF t = StackTypePipeline THEN PipelineSteps(ss[i])
                     ELSE IF t = StackTypeBucket THEN BucketSteps(ss[i])
                     ELSE <<>>
         IN  InventoryOrderLoop(ss, i + 1, execs \o more)

AssemblePlanInventoryOrder(ss) == InventoryOrderLoop(ss, 1, <<>>)

\* every stack of no other wired kind handled as a bucket
RECURSIVE DefaultBucketLoop(_, _, _)
DefaultBucketLoop(ss, i, execs) ==
    IF i > Len(ss) THEN execs
    ELSE DefaultBucketLoop(ss, i + 1,
            IF TagGet(ss[i].tags, "type") \in
                   {StackTypeService, StackTypeEnv, StackTypePipeline}
            THEN execs
            ELSE execs \o BucketSteps(ss[i]))

AssemblePlanDefaultBucket(ss) ==
    LET e1 == ServiceLoop(filterStacksByType(ss, StackTypeService), 1, <<>>)
        e2 == EnvironmentLoop(filterStacksByType(ss, StackTypeEnv), 1, e1)
        e3 == PipelineLoop(filterStacksByType(ss, StackTypePipeline), 1, e2)
    IN  DefaultBucketLoop(ss, 1, e3)

\* the four loops of purgeWorker, each appending to the same executors
AssemblePlan(ss) ==
    LET e1 == ServiceLoop(filterStacksByType(ss, StackTypeService), 1, <<>>)
        e2 == EnvironmentLoop(filterStacksByType(ss, StackTypeEnv), 1, e1)
        e3 == PipelineLoop(filterStacksByType(ss, StackTypePipeline), 1, e2)
    IN  BucketLoop(filterStacksByType(ss, StackTypeBucket), 1, e3)

\* the progress table: one row per stack that has a type tag
RECURSIVE TableRows(_, _, _)
TableRows(ss, i, out) ==
    IF i > Len(ss) THEN out
    ELSE TableRows(ss, i + 1,
            IF TagHas(ss[i].tags, "type")
            THEN Append(out, [type |-> ss[i].tags["type"],
                              name |-> ss[i].name,
                              status |-> ss[i].status])
            ELSE out)

\* every stack counted, its type tag present or not
CountRowsEveryStack(ss, i, n) == Len(ss)

RECURSIVE CountRows(_, _, _)
CountRows(ss, i, n) ==
    IF i > Len(ss) THEN n
    ELSE CountRows(ss, i + 1, IF TagHas(ss[i].tags, "type") THEN n + 1 ELSE n)

\* the statuses purgeWorker excludes
ExcludedStatusesNone == <<>>

ExcludedStatuses == <<StackStatusRollbackComplete>>

-----------------------------------------------------------------------------
(* Executor composition *)

\* the composite purgeWorker runs the plan with: newPipelineExecutorNoStop
PlanCompositeStop == "Stop"

PlanComposite == "NoStop"

\* whether a composite goes on to its next member after a member returned err
CompositeContinues(kind, err) == kind = "NoStop" \/ ~err

\* whether a composite returns an error, given the error of the last member
\* it ran: only the stop-on-error composite hands a member's error on
CompositeReturn(kind, err) == kind = "Stop" /\ err

\* the log entry the continue-on-error composite writes for a failed member
CompositeLog(kind, err, step) ==
    IF kind = "NoStop" /\ err
    THEN <<[level |-> "error", op |-> step.fn, arg |-> step.arg]>>
    ELSE <<>>

\* purgeWorker returns nil whatever ListStacks (err) and the composite
\* (planErr) returned
PurgeWorkerReturnsErr(err, planErr) == err

PurgeWorkerReturn(err, planErr) == FALSE

\* NewPurge: the stop-on-error composite of the single purgeWorker
\* the composite NewPurge wraps purgeWorker in: newPipelineExecutor
NewPurgeCompositeNoStop == "NoStop"

NewPurgeComposite == "Stop"

NewPurgeReturn(workerErr) == CompositeReturn(NewPurgeComposite, workerErr)

-----------------------------------------------------------------------------
(* Logging of purgeWorker and bucketTerminator *)

ListErrLog(err) ==
    IF err THEN <<[level |-> "warning", op |-> "ListStacks", arg |-> "all"]>>
    ELSE <<>>

\* the failure of DeleteStack left unlogged
DeleteStackLogSilent(err, name) == <<>>

DeleteStackLog(err, name) ==
    IF err THEN <<[level |-> "error", op |-> "DeleteStack", arg |-> name]>>
    ELSE <<>>

\* strings.HasSuffix(status, "_COMPLETE"): the last word is COMPLETE and an
\* underscore, hence another word, stands before it
HasSuffixComplete(status) ==
    Len(status) >= 2 /\ status[Len(status)] = "COMPLETE"

AwaitLog(svcStack, name) ==
    IF ~svcStack.nil /\ ~HasSuffixComplete(svcStack.status)
    THEN <<[level |-> "error", op |-> "AwaitFinalStatus", arg |-> name]>>
    ELSE <<>>

DeleteBucketLog(err, id) ==
    IF err THEN <<[level |-> "error", op |-> "DeleteS3Bucket", arg |-> id]>>
    ELSE <<>>

\* where bucketTerminator goes after DeleteStack returned
AfterDeleteStackAborts(err) == IF err THEN "return" ELSE "await"

\* the error of GetResourcesForStack not looked at
AfterResolveIgnoresErr(err) == "drain"

\* where bucketTerminator goes after GetResourcesForStack returned
AfterResolve(err) == IF err THEN "failed" ELSE "drain"

\* the wait skipped when the deletion request failed
AfterDeleteStackSkipsAwait(err) == IF err THEN "delete" ELSE "await"

AfterDeleteStack(err) == "await"

-----------------------------------------------------------------------------
(* The purge run *)

Call(step, op, arg, failed, ret) ==
    [step |-> step, op |-> op, arg |-> arg, failed |-> failed, ret |-> ret]

\* the plan is a single step: the workflow of the only bucket stack kept
LoneStep == Len(executors) = 1

\* the outcomes a collaborator call may have (TRUE: it fails). The code puts no
\* limit on the calls that fail in a run: the run of a lone step is explored
\* with every call free to fail, the run of a longer plan with up to
\* MaxFailures failing calls
Outcomes ==
    IF LoneStep THEN BOOLEAN
    ELSE IF nfail < MaxFailures THEN BOOLEAN ELSE {FALSE}

Failed(err) == IF err THEN nfail + 1 ELSE nfail

InitPurge ==
    /\ pc = "start"
    /\ listed = <<>>
    /\ listErr = FALSE
    /\ stacks = <<>>
    /\ rows = <<>>
    /\ rendered = FALSE
    /\ stackCount = 0
    /\ executors = <<>>
    /\ reported = <<>>
    /\ idx = 0
    /\ executed = <<>>
    /\ bpc = "idle"
    /\ bres = <<>>
    /\ bi = 0
    /\ calls = <<>>
    /\ bcalls = <<>>
    /\ nfail = 0
    /\ log = <<>>
    /\ compErr = FALSE
    /\ result = "none"

InitFilterIdle ==
    /\ fin = [S |-> <<>>, E |-> <<>>, T |-> ""]
    /\ fout = <<>>
    /\ fpc = "idle"

NotReturned == [returned |-> FALSE, err |-> FALSE, of |-> 0]

InitCompositeIdle ==
    /\ cin = [by |-> "purgeWorker", fails |-> <<>>]
    /\ cnext = 1
    /\ cran = <<>>
    /\ cret = NotReturned

Init == InitPurge /\ InitFilterIdle /\ InitCompositeIdle

\* the inventory fetched again after the table is rendered
AssembleCallsRefetch(res) ==
    << Call(0, "ListStacks", "all", res.err, res.stacks),
       Call(0, "Render", "table", FALSE, <<>>),
       Call(0, "ListStacks", "all", res.err, res.stacks) >>

\* the calls purgeWorker issues before it runs the plan: one ListStacks,
\* then the table's Render
AssembleCalls(res) ==
    << Call(0, "ListStacks", "all", res.err, res.stacks),
       Call(0, "Render", "table", FALSE, <<>>) >>

\* purgeWorker up to the composite's call: fetch, status filter, progress
\* table, plan assembly, count report
PurgeAssemble ==
    /\ pc = "start"
    /\ \E res \in ListStacksResults :
        LET ss == removeStacksByStatus(res.stacks, ExcludedStatuses)
            plan == AssemblePlan(ss)
            count == CountRows(ss, 1, 0)
        IN  /\ listed' = res.stacks
            /\ listErr' = res.err
            /\ log' = log \o ListErrLog(res.err)
            /\ stacks' = ss
            /\ rows' = TableRows(ss, 1, <<>>)
            /\ rendered' = TRUE
            /\ stackCount' = count
            /\ executors' = plan
            /\ reported' = <<count, Len(plan)>>
            /\ calls' = calls \o AssembleCalls(res)
    /\ idx' = 1
    /\ pc' = "run"
    /\ UNCHANGED <<executed, bpc, bres, bi, bcalls, nfail, compErr, result>>

\* a member of the plan returned err to the composite
StepReturns(err) ==
    /\ executed' = Append(executed, [step |-> idx, err |-> err])
    /\ log' = log \o CompositeLog(PlanComposite, err, executors[idx])
    /\ IF CompositeContinues(PlanComposite, err)
       THEN /\ idx' = idx + 1
            /\ pc' = pc
            /\ compErr' = compErr
       ELSE /\ idx' = idx
            /\ pc' = "halt"
            /\ compErr' = CompositeReturn(PlanComposite, err)

Running == pc = "run" /\ idx <= Len(executors)

\* the composite runs a step of a sibling workflow (service, environment,
\* pipeline): an opaque executor that succeeds or fails
RunStep ==
    /\ Running
    /\ executors[idx].fn # "bucketTerminator"
    /\ \E err \in Outcomes :
        /\ calls' = Append(calls, Call(idx, executors[idx].fn,
                                       executors[idx].arg, err, <<>>))
        /\ nfail' = Failed(err)
        /\ StepReturns(err)
    /\ UNCHANGED <<listed, listErr, stacks, rows, rendered, stackCount,
                   executors, reported, bpc, bres, bi, bcalls, result>>

\* bucketTerminator, first call: resolve the resources of workflow.Bucket
BucketResolve ==
    /\ Running
    /\ executors[idx].fn = "bucketTerminator"
    /\ bpc = "idle"
    /\ \E r \in ResourceResults(executors[idx].arg) :
        /\ r.err \in Outcomes
        /\ bcalls' = <<Call(idx, "GetResourcesForStack",
                          executors[idx].arg, r.err, r.ids)>>
        /\ nfail' = Failed(r.err)
        /\ bpc' = AfterResolve(r.err)
        /\ bres' = r.ids
    /\ bi' = 1
    /\ UNCHANGED <<pc, listed, listErr, stacks, rows, rendered, stackCount,
                   executors, reported, idx, executed, calls, log, compErr,
                   result>>

\* the resources did not resolve: bucketTerminator returns the error
BucketReturnErr ==
    /\ Running
    /\ bpc = "failed"
    /\ StepReturns(TRUE)
    /\ bpc' = "idle"
    /\ bres' = <<>>
    /\ bi' = 0
    /\ bcalls' = <<>>
    /\ UNCHANGED <<listed, listErr, stacks, rows, rendered, stackCount,
                   executors, reported, calls, nfail, result>>

\* first loop: empty one bucket; the call's result is not looked at
BucketDrain ==
    /\ Running
    /\ bpc = "drain"
    /\ bi <= Len(bres)
    /\ \E err \in Outcomes :
        /\ bcalls' = Append(bcalls, Call(idx, "DeleteS3BucketObjects",
                                         bres[bi], err, <<>>))
        /\ nfail' = Failed(err)
    /\ bi' = bi + 1
    /\ UNCHANGED <<pc, listed, listErr, stacks, rows, rendered, stackCount,
                   executors, reported, idx, executed, bpc, bres, calls,
                   log, compErr, result>>

\* after the first loop: delete the stack, log a failure
BucketDeleteStack ==
    /\ Running
    /\ bpc = "drain"
    /\ bi > Len(bres)
    /\ \E err \in Outcomes :
        /\ bcalls' = Append(bcalls, Call(idx, "DeleteStack",
                                       executors[idx].arg, err, <<>>))
        /\ nfail' = Failed(err)
        /\ log' = log \o DeleteStackLog(err, executors[idx].arg)
        /\ bpc' = AfterDeleteStack(err)
    /\ UNCHANGED <<pc, listed, listErr, stacks, rows, rendered, stackCount,
                   executors, reported, idx, executed, bres, bi, calls,
                   compErr, result>>

\* wait for the terminal status, log a status that is not a _COMPLETE one
BucketAwait ==
    /\ Running
    /\ bpc = "await"
    /\ \E r \in AwaitResults :
        /\ bcalls' = Append(bcalls, Call(idx, "AwaitFinalStatus",
                                       executors[idx].arg, FALSE, r))
        /\ log' = log \o AwaitLog(r, executors[idx].arg)
    /\ bpc' = "delete"
    /\ bi' = 1
    /\ UNCHANGED <<pc, listed, listErr, stacks, rows, rendered, stackCount,
                   executors, reported, idx, executed, bres, calls, nfail,
                   compErr, result>>

\* second loop: delete one bucket, log a failure
BucketDeleteBucket ==
    /\ Running
    /\ bpc = "delete"
    /\ bi <= Len(bres)
    /\ \E err \in Outcomes :
        /\ bcalls' = Append(bcalls, Call(idx, "DeleteS3Bucket", bres[bi], err,
                                       <<>>))
        /\ nfail' = Failed(err)
        /\ log' = log \o DeleteBucketLog(err, bres[bi])
    /\ bi' = bi + 1
    /\ UNCHANGED <<pc, listed, listErr, stacks, rows, rendered, stackCount,
                   executors, reported, idx, executed, bpc, bres, calls,
                   compErr, result>>

BucketAtReturn ==
    IF bpc = "return" THEN TRUE ELSE bpc = "delete" /\ bi > Len(bres)

\* bucketTerminator returns nil to the composite
BucketReturn ==
    /\ Running
    /\ BucketAtReturn
    /\ StepReturns(FALSE)
    /\ bpc' = "idle"
    /\ bres' = <<>>
    /\ bi' = 0
    /\ bcalls' = <<>>
    /\ UNCHANGED <<listed, listErr, stacks, rows, rendered, stackCount,
                   executors, reported, calls, nfail, result>>

CompositeFinished ==
    IF pc = "halt" THEN TRUE ELSE pc = "run" /\ idx > Len(executors)

\* the composite returns, purgeWorker returns, the executor of NewPurge returns
PurgeReturn ==
    /\ CompositeFinished
    /\ result' = IF NewPurgeReturn(PurgeWorkerReturn(listErr, compErr)) THEN "error"
                 ELSE "nil"
    /\ pc' = "done"
    /\ UNCHANGED <<listed, listErr, stacks, rows, rendered, stackCount,
                   executors, reported, idx, executed, bpc, bres, bi, calls,
                   bcalls, nfail, log, compErr>>

Next ==
    \/ PurgeAssemble /\ UNCHANGED <<filterVars, compositeVars>>
    \/ RunStep /\ UNCHANGED <<filterVars, compositeVars>>
    \/ BucketResolve /\ UNCHANGED <<filterVars, compositeVars>>
    \/ BucketReturnErr /\ UNCHANGED <<filterVars, compositeVars>>
    \/ BucketDrain /\ UNCHANGED <<filterVars, compositeVars>>
    \/ BucketDeleteStack /\ UNCHANGED <<filterVars, compositeVars>>
    \/ BucketAwait /\ UNCHANGED <<filterVars, compositeVars>>
    \/ BucketDeleteBucket /\ UNCHANGED <<filterVars, compositeVars>>
    \/ BucketReturn /\ UNCHANGED <<filterVars, compositeVars>>
    \/ PurgeReturn /\ UNCHANGED <<filterVars, compositeVars>>

Spec == Init /\ [][Next]_vars

\* the run as one sequential program whose calls all return: whenever a
\* step of it can be taken, one eventually is
SpecLive == Init /\ [][Next]_vars /\ WF_vars(Next)

-----------------------------------------------------------------------------
(* The filters applied to bounded inputs *)

FilterTagMaps ==
    {("type" :> StackTypeService) @@ ("environment" :> "prod"),
     ("type" :> StackTypeBucket),
     ("type" :> ""),
     ("environment" :> "prod"),
     EmptyTags}

FilterInputs ==
    {Named(b) : b \in SeqsUpTo([status : Statuses, tags : FilterTagMaps],
                               MaxStacks)}

StatusLists == SeqsUpTo(Statuses, MaxStatuses)

FilterTypes == {"", StackTypeService, StackTypeBucket, StackTypePipeline}

InitFilter ==
    /\ InitPurge
    /\ fin \in [S : FilterInputs, E : StatusLists, T : FilterTypes]
    /\ fout = <<>>
    /\ fpc = "idle"
    /\ InitCompositeIdle

ApplyRemoveStacksByStatus ==
    /\ fpc = "idle"
    /\ fout' = removeStacksByStatus(fin.S, fin.E)
    /\ fpc' = "removed"
    /\ UNCHANGED fin

ApplyFilterStacksByType ==
    /\ fpc = "idle"
    /\ fout' = filterStacksByType(fin.S, fin.T)
    /\ fpc' = "filtered"
    /\ UNCHANGED fin

NextFilter ==
    \/ ApplyRemoveStacksByStatus /\ UNCHANGED <<purgeVars, compositeVars>>
    \/ ApplyFilterStacksByType /\ UNCHANGED <<purgeVars, compositeVars>>

SpecFilter == InitFilter /\ [][NextFilter]_vars

-----------------------------------------------------------------------------
(* The two composites applied to members of given outcomes *)

\* the outcomes of the members, in order (TRUE: the member returns an error)
MemberOutcomes == SeqsUpTo(BOOLEAN, MaxMembers)

\* the composite each of the two builders of purge.go uses
CompositeOf(by) == IF by = "NewPurge" THEN NewPurgeComposite ELSE PlanComposite

InitComposite ==
    /\ InitPurge
    /\ InitFilterIdle
    /\ cin \in [by : {"NewPurge", "purgeWorker"}, fails : MemberOutcomes]
    /\ cnext = 1
    /\ cran = <<>>
    /\ cret = NotReturned

\* the composite runs its next member and goes on, or returns its error
CompositeRunMember ==
    /\ ~cret.returned
    /\ cnext <= Len(cin.fails)
    /\ cran' = Append(cran, cnext)
    /\ LET kind == CompositeOf(cin.by)
           err == cin.fails[cnext]
       IN  IF CompositeContinues(kind, err)
           THEN cnext' = cnext + 1 /\ cret' = cret
           ELSE /\ cnext' = cnext
                /\ cret' = [returned |-> TRUE,
                            err |-> CompositeReturn(kind, err),
                            of |-> cnext]
    /\ UNCHANGED cin

\* every member has run: the composite returns nil
CompositeEnd ==
    /\ ~cret.returned
    /\ cnext > Len(cin.fails)
    /\ cret' = [returned |-> TRUE, err |-> FALSE, of |-> 0]
    /\ UNCHANGED <<cin, cnext, cran>>

NextComposite ==
    \/ CompositeRunMember /\ UNCHANGED <<purgeVars, filterVars>>
    \/ CompositeEnd /\ UNCHANGED <<purgeVars, filterVars>>

SpecComposite == InitComposite /\ [][NextComposite]_vars

-----------------------------------------------------------------------------
(* Helpers of the properties *)

\* the elements of s at the indices I, in increasing order of index
SubseqAt(s, I) ==
    LET nth(k) == CHOOSE i \in I : Cardinality({j \in I : j < i}) = k - 1
    IN  [k \in 1..Cardinality(I) |-> s[nth(k)]]

\* the arguments of the calls of cs to op, in call order
RECURSIVE ArgsFrom(_, _, _, _)
ArgsFrom(cs, op, i, out) ==
    IF i > Len(cs) THEN out
    ELSE ArgsFrom(cs, op, i + 1,
            IF cs[i].op = op THEN Append(out, cs[i].arg) ELSE out)

ArgsOf(cs, op) == ArgsFrom(cs, op, 1, <<>>)

PositionsOf(cs, op) == {i \in DOMAIN cs : cs[i].op = op}

TypeOf(stack) == TagGet(stack.tags, "type")

\* the stack of the fetched inventory that contributed a plan step
OwnerOf(step) == CHOOSE s \in Range(listed) : s.name = step.owner

KindRank(t) ==
    CASE t = StackTypeService -> 1
      [] t = StackTypeEnv -> 2
      [] t = StackTypePipeline -> 3
      [] t = StackTypeBucket -> 4
      [] OTHER -> 0

\* the rank of the kind of the stack that contributed the step at p; the
\* ranks never decreasing along the plan is the same as no step of a later
\* kind standing before a step of an earlier kind
StepRank(p) == KindRank(TypeOf(OwnerOf(executors[p])))

StepsOf(name) == {p \in DOMAIN executors : executors[p].owner = name}

\* the running bucket workflow resolved its resources
Resolved == bcalls # <<>> /\ ~bcalls[1].failed

ResolvedIds == bcalls[1].ret

\* the running bucket workflow has issued its last call and is about to
\* return nil
WorkflowAtEnd == Resolved /\ BucketAtReturn

-----------------------------------------------------------------------------
(* Properties of the purge run *)

\* C1: the plan is ordered by kind: every step of a service stack precedes
\* every step of an environment stack, which precedes every step of a
\* pipeline stack, which precedes every bucket workflow, whatever the order
\* of the stacks in the inventory.
C1_PlanOrderedByKind ==
    \A rank \in {[p \in DOMAIN executors |-> StepRank(p)]} :
        /\ \A p \in DOMAIN executors : rank[p] > 0
        /\ \A p \in DOMAIN executors :
            p < Len(executors) => rank[p] <= rank[p + 1]

\* an inventory that lists a stack of a later kind before a stack of an
\* earlier kind, both with steps in the plan
C1_Witness ==
    /\ pc = "done"
    /\ \E i, j \in DOMAIN stacks :
        /\ i < j
        /\ KindRank(TypeOf(stacks[j])) > 0
        /\ KindRank(TypeOf(stacks[i])) > KindRank(TypeOf(stacks[j]))
        /\ StepsOf(stacks[i].name) # {}
        /\ StepsOf(stacks[j].name) # {}

\* C2: the plan runs with continue-on-error composition: its steps execute
\* once each, in plan order; when the run ends every step has executed,
\* whichever of them failed, and the composite has returned no error.
C2_ContinueOnError ==
    /\ \A k \in DOMAIN executed : executed[k].step = k
    /\ Len(executed) <= Len(executors)
    /\ pc = "done" => Len(executed) = Len(executors) /\ ~compErr

\* a finished run in which a step failed and a later step executed
C2_Witness ==
    /\ pc = "done"
    /\ \E k \in DOMAIN executed : executed[k].err /\ k < Len(executed)

\* C3: in a bucket workflow whose resources resolved to R ids, the objects of
\* each id are deleted once, all before DeleteStack is called, and once the
\* workflow returns each id has had one DeleteS3Bucket call, whether or
\* not DeleteStack failed and whatever the terminal status was.
C3_BucketCalls ==
    Resolved =>
        /\ Cardinality(PositionsOf(bcalls, "DeleteStack")) <= 1
        /\ \A p \in PositionsOf(bcalls, "DeleteStack") :
            /\ ArgsOf(SubSeq(bcalls, 1, p - 1), "DeleteS3BucketObjects")
                   = ResolvedIds
            /\ ArgsOf(SubSeq(bcalls, p, Len(bcalls)), "DeleteS3BucketObjects")
                   = <<>>
        /\ WorkflowAtEnd =>
            /\ Cardinality(PositionsOf(bcalls, "DeleteStack")) = 1
            /\ ArgsOf(bcalls, "DeleteS3BucketObjects") = ResolvedIds
            /\ ArgsOf(bcalls, "DeleteS3Bucket") = ResolvedIds

\* a workflow about to return, with two resources, whose DeleteStack failed
\* and whose terminal status was a failed one
C3_Witness ==
    /\ WorkflowAtEnd
    /\ Len(ResolvedIds) = 2
    /\ \E p \in PositionsOf(bcalls, "DeleteStack") : bcalls[p].failed
    /\ \E p \in PositionsOf(bcalls, "AwaitFinalStatus") :
        bcalls[p].ret.status = StatusDeleteFailed
    /\ Len(ArgsOf(bcalls, "DeleteS3Bucket")) = 2

\* C4: the executor built by NewPurge returns nil on every run, whether or
\* not the fetch failed and whichever steps failed.
C4_AlwaysSuccess ==
    /\ result \in {"none", "nil"}
    /\ pc = "done" => result = "nil"

\* a finished run in which a plan step failed
C4_Witness ==
    /\ pc = "done"
    /\ \E k \in DOMAIN executed : executed[k].err

\* C5: when ListStacks fails the failure is logged, the plan has no steps, no
\* row is emitted, no step, delete, drain or await call is issued, and the
\* run ends with success. Fails: purgeWorker logs the warning and goes on with
\* the slice that came back with the error, so a stack listed before the
\* listing broke off gets its row and its steps.
C5_FetchFailure ==
    listErr =>
        /\ \E k \in DOMAIN log :
            log[k].level = "warning" /\ log[k].op = "ListStacks"
        /\ executors = <<>>
        /\ rows = <<>>
        /\ stackCount = 0
        /\ \A k \in DOMAIN calls : calls[k].op \in {"ListStacks", "Render"}
        /\ bcalls = <<>>
        /\ executed = <<>>
        /\ pc \in {"run", "done"}
        /\ pc = "run" => CompositeFinished
        /\ pc = "done" => result = "nil"

\* C9: a stack in status ROLLBACK_COMPLETE is removed before classification:
\* it has no row, is not counted and has no step in the plan; the stacks of
\* every other status are kept, in order.
C9_RolledBackRemoved ==
    pc # "start" =>
        /\ stacks = SubseqAt(listed,
               {i \in DOMAIN listed :
                   listed[i].status # <<"ROLLBACK", "COMPLETE">>})
        /\ \A i \in DOMAIN listed :
            listed[i].status = <<"ROLLBACK", "COMPLETE">> =>
                /\ \A r \in DOMAIN rows : rows[r].name # listed[i].name
                /\ StepsOf(listed[i].name) = {}
        /\ stackCount = Cardinality(
               {i \in DOMAIN listed :
                   /\ listed[i].status # <<"ROLLBACK", "COMPLETE">>
                   /\ TagHas(listed[i].tags, "type")})

\* an inventory of a rolled-back environment and of an environment whose
\* update was rolled back, the second one planned
C9_Witness ==
    /\ pc = "done"
    /\ \E i, j \in DOMAIN listed :
        /\ listed[i].status = <<"ROLLBACK", "COMPLETE">>
        /\ TypeOf(listed[i]) = StackTypeEnv
        /\ listed[j].status = <<"UPDATE", "ROLLBACK", "COMPLETE">>
        /\ StepsOf(listed[j].name) # {}
        /\ StepsOf(listed[i].name) = {}

\* the order of the seven environment sub-steps
C10_Order ==
    << "environmentServiceTerminator", "environmentDbTerminator",
       "environmentEcsTerminator", "environmentConsulTerminator",
       "environmentRolesetTerminator", "environmentElbTerminator",
       "environmentVpcTerminator" >>

\* C10: every environment stack that survives the status filter contributes
\* seven consecutive steps, in the fixed order that ends with the VPC
\* terminator, each with the stack's environment tag as its parameter.
C10_EnvironmentSteps ==
    pc # "start" =>
        \A i \in DOMAIN stacks :
            TypeOf(stacks[i]) = StackTypeEnv =>
                LET mine == StepsOf(stacks[i].name)
                    env == TagGet(stacks[i].tags, "environment")
                IN  /\ Cardinality(mine) = Len(C10_Order)
                    /\ \E p0 \in mine :
                        \A k \in DOMAIN C10_Order :
                            /\ p0 + k - 1 \in mine
                            /\ executors[p0 + k - 1].fn = C10_Order[k]
                            /\ executors[p0 + k - 1].arg = env

\* a finished run over two environment stacks of different environments
C10_Witness ==
    /\ pc = "done"
    /\ \E i, j \in DOMAIN stacks :
        /\ i < j
        /\ TypeOf(stacks[i]) = StackTypeEnv
        /\ TypeOf(stacks[j]) = StackTypeEnv
        /\ TagGet(stacks[i].tags, "environment")
               # TagGet(stacks[j].tags, "environment")
    /\ Len(executed) = Len(C10_Order) + Len(C10_Order)

\* the two steps of a service stack
C11_Order == << "serviceInput", "serviceUndeployer" >>

\* C11: every service stack that survives the status filter contributes two
\* consecutive steps: the step that names the service to undeploy, with the
\* stack's service tag, then the step that removes the service from an
\* environment, with the stack's environment tag; over an inventory of one
\* service stack the plan is these two steps, both run, and the run returns
\* nil.
C11_ServiceSteps ==
    pc # "start" =>
        /\ \A i \in DOMAIN stacks :
            TypeOf(stacks[i]) = StackTypeService =>
                LET mine == StepsOf(stacks[i].name)
                IN  /\ Cardinality(mine) = Len(C11_Order)
                    /\ \E p0 \in mine :
                        /\ p0 + 1 \in mine
                        /\ executors[p0].fn = C11_Order[1]
                        /\ executors[p0].arg
                               = TagGet(stacks[i].tags, "service")
                        /\ executors[p0 + 1].fn = C11_Order[2]
                        /\ executors[p0 + 1].arg
                               = TagGet(stacks[i].tags, "environment")
        /\ (Len(listed) = 1 /\ Len(stacks) = 1
               /\ TypeOf(stacks[1]) = StackTypeService) =>
            /\ Len(executors) = Len(C11_Order)
            /\ reported = <<1, Len(C11_Order)>>
            /\ pc = "done" =>
                /\ Len(executed) = Len(C11_Order)
                /\ result = "nil"

\* a finished run over the single service stack "web" of environment "prod"
C11_Witness ==
    /\ pc = "done"
    /\ Len(listed) = 1
    /\ Len(stacks) = 1
    /\ TypeOf(stacks[1]) = StackTypeService
    /\ TagGet(stacks[1].tags, "service")
           # TagGet(stacks[1].tags, "environment")
    /\ Len(executed) = 2
    /\ result = "nil"

\* the three steps of a pipeline stack
C12_Order ==
    << "serviceFinder", "pipelineTerminator", "pipelineRolesetTerminator" >>

\* C12: every pipeline stack that survives the status filter contributes
\* three consecutive steps, in this order: the step that locates the
\* pipeline's service, with the stack's service tag, the pipeline
\* terminator and the pipeline roleset terminator.
C12_PipelineSteps ==
    pc # "start" =>
        \A i \in DOMAIN stacks :
            TypeOf(stacks[i]) = StackTypePipeline =>
                LET mine == StepsOf(stacks[i].name)
                IN  /\ Cardinality(mine) = Len(C12_Order)
                    /\ \E p0 \in mine :
                        /\ \A k \in DOMAIN C12_Order :
                            /\ p0 + k - 1 \in mine
                            /\ executors[p0 + k - 1].fn = C12_Order[k]
                        /\ executors[p0].arg
                               = TagGet(stacks[i].tags, "service")

\* a finished run whose plan holds a pipeline stack's steps after the steps
\* of a stack of an earlier kind
C12_Witness ==
    /\ pc = "done"
    /\ \E i \in DOMAIN stacks :
        /\ TypeOf(stacks[i]) = StackTypePipeline
        /\ \E p \in StepsOf(stacks[i].name) : p > Len(C12_Order)
    /\ Len(executed) = Len(executors)

\* the kinds purgeWorker has a loop for
WiredKinds ==
    {StackTypeService, StackTypeEnv, StackTypePipeline, StackTypeBucket}

\* the stacks classification looks at that are of a wired kind, in order
IsWired(stack) == TypeOf(stack) \in WiredKinds

WiredStacks == SelectSeq(stacks, IsWired)

\* the stack a call or a log entry is about: the stack itself, or the stack
\* whose resource id it names
SubjectOf(op, arg) ==
    IF op \in {"DeleteS3BucketObjects", "DeleteS3Bucket"} THEN arg[1] ELSE arg

\* C13: a stack with no type tag, or with a type that is none of service,
\* environment, pipeline and bucket, has no step in the plan, is the subject
\* of no call and of no log entry, and the plan is the plan of the inventory
\* without it.
C13_UnwiredIgnored ==
    pc # "start" =>
        /\ \A i \in DOMAIN stacks :
            TypeOf(stacks[i]) \notin WiredKinds =>
                /\ StepsOf(stacks[i].name) = {}
                /\ \A k \in DOMAIN bcalls :
                    SubjectOf(bcalls[k].op, bcalls[k].arg) # stacks[i].name
                /\ \A k \in DOMAIN log :
                    SubjectOf(log[k].op, log[k].arg) # stacks[i].name
        /\ executors = AssemblePlan(WiredStacks)
        /\ pc = "done" => result = "nil"

\* a finished run over a database stack listed before a bucket stack, the
\* bucket workflow executed
C13_Witness ==
    /\ pc = "done"
    /\ Len(stacks) = 2
    /\ TypeOf(stacks[1]) = StackTypeDatabase
    /\ TypeOf(stacks[2]) = StackTypeBucket
    /\ Len(executed) = 1
    /\ executors[1].owner = stacks[2].name

\* C14: every collaborator call of the bucket workflow that fails has a log
\* entry: the failed drain, stack deletion or bucket deletion one that names
\* the operation and its subject, the failed resource listing the entry of
\* the failed step; and the run still executes every step of the plan.
C14_FailuresLogged ==
    /\ \A k \in DOMAIN bcalls :
        (bcalls[k].failed /\ bcalls[k].op # "GetResourcesForStack") =>
            \E l \in DOMAIN log :
                /\ log[l].op = bcalls[k].op
                /\ log[l].arg = bcalls[k].arg
    /\ \A k \in DOMAIN executed :
        executed[k].err =>
            \E l \in DOMAIN log :
                /\ log[l].level = "error"
                /\ log[l].op = executors[k].fn
                /\ log[l].arg = executors[k].arg
    /\ pc = "done" => Len(executed) = Len(executors)

\* the inventory is one bucket stack
OneBucketStack ==
    /\ Len(listed) = 1
    /\ Len(stacks) = 1
    /\ TypeOf(stacks[1]) = StackTypeBucket

\* the running bucket workflow of a one-bucket inventory has resolved two
\* resource ids, its DeleteStack has failed, and it is about to return
TwoResourcesDeleteStackFailed ==
    /\ OneBucketStack
    /\ WorkflowAtEnd
    /\ Len(ResolvedIds) = 2
    /\ \E p \in PositionsOf(bcalls, "DeleteStack") : bcalls[p].failed

ErrorEntries == Cardinality({l \in DOMAIN log : log[l].level = "error"})

\* AwaitFinalStatus handed back a stack whose status does not end in
\* _COMPLETE
EndedInFailedStatus ==
    \E p \in PositionsOf(bcalls, "AwaitFinalStatus") :
        /\ ~bcalls[p].ret.nil
        /\ bcalls[p].ret.status[Len(bcalls[p].ret.status)] # "COMPLETE"

FailedBucketDeletes ==
    Cardinality({p \in PositionsOf(bcalls, "DeleteS3Bucket") :
                    bcalls[p].failed})

\* C15: over an inventory of one bucket stack with two resource ids whose
\* DeleteStack fails, both ids get a DeleteS3Bucket call, the run ends
\* with its one step executed and returns nil, and exactly two error entries
\* are logged.
C15_TwoErrorEntries ==
    /\ TwoResourcesDeleteStackFailed =>
        /\ ArgsOf(bcalls, "DeleteS3Bucket") = ResolvedIds
        /\ ErrorEntries = 2
    /\ (OneBucketStack /\ pc = "done") =>
        /\ Len(executed) = 1
        /\ result = "nil"

\* C15, amended: in the same run both ids get a DeleteS3Bucket call, the
\* run ends with its one step executed and returns nil, and the error entries
\* logged are one for the failed DeleteStack, one more when the terminal
\* status is a status that does not end in _COMPLETE, and one more for each
\* DeleteS3Bucket call that failed.
C15_ErrorEntries ==
    /\ TwoResourcesDeleteStackFailed =>
        /\ ArgsOf(bcalls, "DeleteS3Bucket") = ResolvedIds
        /\ ErrorEntries = 1 + (IF EndedInFailedStatus THEN 1 ELSE 0)
                             + FailedBucketDeletes
        /\ \E l \in DOMAIN log :
            log[l].level = "error" /\ log[l].op = "DeleteStack"
    /\ (OneBucketStack /\ pc = "done") =>
        /\ Len(executed) = 1
        /\ result = "nil"

\* the workflow about to return after a failed DeleteStack, a terminal
\* status DELETE_FAILED and the failed deletion of both buckets: four error
\* entries logged
C15_Witness ==
    /\ TwoResourcesDeleteStackFailed
    /\ EndedInFailedStatus
    /\ FailedBucketDeletes = 2
    /\ ErrorEntries = 4
    /\ Len(ArgsOf(bcalls, "DeleteS3Bucket")) = 2

\* AwaitFinalStatus handed back a stack in a terminal status other than
\* DELETE_COMPLETE: the deletion waited for has not fully succeeded
NotFullSuccess ==
    \E p \in PositionsOf(bcalls, "AwaitFinalStatus") :
        /\ ~bcalls[p].ret.nil
        /\ bcalls[p].ret.status # StatusDeleteComplete

\* the terminal status of the running workflow that is not one of full
\* success has its error entry, and the bucket deletions, all issued after the
\* wait, are those of the resolved ids once the workflow is about to return
NotFullSuccessHandled ==
    (Resolved /\ NotFullSuccess) =>
        /\ \E l \in DOMAIN log :
            /\ log[l].level = "error"
            /\ log[l].op = "AwaitFinalStatus"
            /\ log[l].arg = executors[idx].arg
        /\ \A p \in PositionsOf(bcalls, "DeleteS3Bucket") :
            \A q \in PositionsOf(bcalls, "AwaitFinalStatus") : q < p
        /\ WorkflowAtEnd => ArgsOf(bcalls, "DeleteS3Bucket") = ResolvedIds

\* C17: when AwaitFinalStatus hands back a stack whose terminal status does
\* not indicate full success, an error entry is logged for it, the workflow
\* returns only after a DeleteS3Bucket call for every resolved id, issued
\* after the wait, and it returns nil. Fails: a status that ends in _COMPLETE
\* passes the test of line 121 whatever stands before the suffix, so
\* UPDATE_ROLLBACK_COMPLETE is not logged.
C17_NotFullSuccessLogged ==
    [][/\ NotFullSuccessHandled'
       /\ (Resolved /\ NotFullSuccess
              /\ Len(executed') > Len(executed)) =>
           /\ WorkflowAtEnd
           /\ ArgsOf(bcalls, "DeleteS3Bucket") = ResolvedIds
           /\ ~executed'[Len(executed')].err]_vars

\* the operations of a bucket workflow over r resource ids, phase by phase
PhaseOps(r) ==
    <<"GetResourcesForStack">>
        \o [k \in 1..r |-> "DeleteS3BucketObjects"]
        \o <<"DeleteStack", "AwaitFinalStatus">>
        \o [k \in 1..r |-> "DeleteS3Bucket"]

\* C18: a bucket workflow whose resources resolved issues its calls in the
\* fixed order of the phases: the drain of every bucket, DeleteStack,
\* AwaitFinalStatus, the deletion of every bucket; AwaitFinalStatus is called
\* once, also after a failed DeleteStack, and no bucket is deleted before it.
C18_PhaseOrder ==
    Resolved =>
        LET ops == [k \in DOMAIN bcalls |-> bcalls[k].op]
            want == PhaseOps(Len(ResolvedIds))
        IN  /\ Len(ops) <= Len(want)
            /\ ops = SubSeq(want, 1, Len(ops))
            /\ WorkflowAtEnd => ops = want
            /\ \A p \in PositionsOf(bcalls, "DeleteStack") :
                bcalls[p].failed =>
                    (Len(ops) > p => ops[p + 1] = "AwaitFinalStatus")

\* a workflow about to return, with two resources, whose DeleteStack failed
\* and whose wait handed back no stack
C18_Witness ==
    /\ WorkflowAtEnd
    /\ Len(ResolvedIds) = 2
    /\ \E p \in PositionsOf(bcalls, "DeleteStack") : bcalls[p].failed
    /\ \E p \in PositionsOf(bcalls, "AwaitFinalStatus") : bcalls[p].ret.nil
    /\ Cardinality(PositionsOf(bcalls, "AwaitFinalStatus")) = 1
    /\ Len(bcalls) = 7

\* the running bucket workflow's resolution failed
ResolveFailed == bcalls # <<>> /\ bcalls[1].failed

\* C19: a bucket workflow whose GetResourcesForStack failed issues no other
\* call and returns an error; a workflow whose resources resolved returns
\* nil, whichever of its later calls failed and whatever the terminal status.
C19_ResolveFailureReturned ==
    [][/\ ResolveFailed' =>
           /\ Len(bcalls') = 1
           /\ bcalls'[1].op = "GetResourcesForStack"
       /\ (bcalls # <<>> /\ Len(executed') > Len(executed)) =>
           /\ executed'[Len(executed')].step = idx
           /\ executed'[Len(executed')].err = ResolveFailed]_vars

\* the resolution has failed and the workflow is about to return its error
C19_Witness ==
    /\ ResolveFailed
    /\ bpc = "failed"
    /\ Len(bcalls) = 1
    /\ executors[idx].fn = "bucketTerminator"

\* the inventory has been fetched once, first of all calls, the table
\* rendered next, every later call is the call of a plan step, and every
\* step of the plan is the step of a stack of the fetched inventory
FetchedOnce ==
    /\ Len(calls) >= 2
    /\ calls[1].op = "ListStacks"
    /\ calls[1].ret = listed
    /\ calls[2].op = "Render"
    /\ \A k \in DOMAIN calls :
        k > 2 => calls[k].op # "ListStacks" /\ calls[k].step \in DOMAIN executors
    /\ \A k \in DOMAIN bcalls : bcalls[k].op # "ListStacks"
    /\ \A p \in DOMAIN executors :
        \E i \in DOMAIN listed : listed[i].name = executors[p].owner

\* C20: a run fetches the inventory once, before it renders the table and
\* before any step executes; the plan is whole when the first step executes
\* and no step of the run changes it, nor the inventory it was built from.
C20_FetchOncePlanFixed ==
    [][/\ pc = "start" =>
           /\ calls = <<>> /\ bcalls = <<>> /\ executed = <<>>
           /\ executed' = <<>>
           /\ Len(calls') = 2
       /\ pc' # "start" => FetchedOnce'
       /\ pc # "start" =>
           /\ executors' = executors
           /\ stacks' = stacks
           /\ listed' = listed]_vars

\* a finished run of two stacks whose second step was a bucket workflow
C20_Witness ==
    /\ pc = "done"
    /\ Len(stacks) = 2
    /\ Len(executed) = Len(executors)
    /\ Len(executors) >= 2
    /\ executors[Len(executors)].fn = "bucketTerminator"
    /\ Len(calls) > 2
    /\ calls[1].op = "ListStacks"

\* the step in progress is the one at idx and no other: the steps before
\* it have returned, the calls of the running bucket workflow are its own,
\* and a workflow is in progress only while the composite runs a bucket step
OneStepAtATime ==
    /\ pc = "run" => Len(executed) = idx - 1
    /\ \A k \in DOMAIN bcalls : bcalls[k].step = idx
    /\ bpc # "idle" =>
        /\ Running
        /\ executors[idx].fn = "bucketTerminator"

\* the run has returned, every step of the plan executed
RunComplete == pc = "done" /\ Len(executed) = Len(executors)

\* C21: when every call returns, the run reaches its end with every step of
\* the plan executed, and stays there; at every moment at most one step is
\* in progress.
C21_RunCompletes == <>[]RunComplete /\ []OneStepAtATime

\* a finished run of a plan of several steps, a bucket workflow among them,
\* in which a call failed
C21_Witness ==
    /\ RunComplete
    /\ Len(executors) > 2
    /\ \E p \in DOMAIN executors : executors[p].fn = "bucketTerminator"
    /\ nfail > 0
    /\ bpc = "idle"

\* how many of the stacks classification looks at are of type t
StacksOfType(t) == Cardinality({i \in DOMAIN stacks : TypeOf(stacks[i]) = t})

\* the reported counts: the stacks are the rows of the table, one for each
\* kept stack that has a type tag; the steps are the plan, two for a service,
\* seven for an environment, three for a pipeline, one for a bucket
CountsAgree ==
    /\ reported[1] = stackCount
    /\ stackCount = Len(rows)
    /\ Len(rows) = Cardinality({i \in DOMAIN stacks :
                                   TagHas(stacks[i].tags, "type")})
    /\ reported[2] = Len(executors)
    /\ Len(executors) = 2 * StacksOfType(StackTypeService)
                          + 7 * StacksOfType(StackTypeEnv)
                          + 3 * StacksOfType(StackTypePipeline)
                          + StacksOfType(StackTypeBucket)

\* C22: from the end of plan assembly on, the reported stack count is the
\* number of table rows, the number of status-filtered stacks with a type
\* tag, and the reported step count is the length of the plan, 2 per
\* service, 7 per environment, 3 per pipeline and 1 per bucket stack.
C22_ReportedCounts == [][pc' # "start" => CountsAgree']_vars

\* an assembled plan over an environment and a stack without tags: one row,
\* seven steps
C22_Witness ==
    /\ pc = "run"
    /\ Len(listed) = 2
    /\ Len(stacks) = 2
    /\ \E i \in DOMAIN stacks : ~TagHas(stacks[i].tags, "type")
    /\ \E i \in DOMAIN stacks : TypeOf(stacks[i]) = StackTypeEnv
    /\ reported = <<1, 7>>
    /\ Len(rows) = 1

\* of two stacks of the same kind the steps of the one listed first all
\* stand before the steps of the other, and no step of one stack stands
\* between two steps of another
PlanKeepsInventoryOrder ==
    \A i, j \in DOMAIN listed :
        LET A == StepsOf(listed[i].name)
            B == StepsOf(listed[j].name)
        IN  /\ (i < j /\ TypeOf(listed[i]) = TypeOf(listed[j])) =>
                \A p \in A : \A q \in B : p < q
            /\ i # j =>
                \A p \in A : \A q \in A : \A r \in B : ~(p < r /\ r < q)

\* a step that sets a parameter is followed at once by a step of its stack
ParameterStepsFollowed ==
    \A p \in DOMAIN executors :
        executors[p].fn \in {"serviceInput", "serviceFinder"} =>
            /\ p < Len(executors)
            /\ executors[p + 1].owner = executors[p].owner
            /\ executors[p + 1].fn \in {"serviceUndeployer", "pipelineTerminator"}

\* C23: the plan purgeWorker assembles keeps, within each kind, the order of
\* the fetched inventory, and the steps of one stack stand together: the
\* step that names a service or finds a pipeline's service is followed at
\* once by the terminator of the same stack.
C23_InventoryOrderKept ==
    [][pc = "start" =>
           PlanKeepsInventoryOrder' /\ ParameterStepsFollowed']_vars

\* a plan of two environments, the seven steps of the one listed first
\* standing before the seven steps of the other
C23_Witness ==
    /\ pc = "run"
    /\ Len(stacks) = 2
    /\ TypeOf(stacks[1]) = StackTypeEnv
    /\ TypeOf(stacks[2]) = StackTypeEnv
    /\ Len(executors) = 14
    /\ executors[7].owner = stacks[1].name
    /\ executors[8].owner = stacks[2].name

\* the calls of the running bucket workflow are about the stack its step
\* was built for: the resolution, DeleteStack and AwaitFinalStatus name that
\* stack, the drains and the bucket deletions name ids the resolution
\* returned, and the ids deleted are the ids drained, in the same order
TouchesOnlyItsStack ==
    bcalls # <<>> =>
        LET B == executors[idx].owner
            drained == ArgsOf(bcalls, "DeleteS3BucketObjects")
            deleted == ArgsOf(bcalls, "DeleteS3Bucket")
        IN  /\ executors[idx].fn = "bucketTerminator"
            /\ \E i \in DOMAIN stacks :
                stacks[i].name = B /\ TypeOf(stacks[i]) = StackTypeBucket
            /\ bcalls[1].op = "GetResourcesForStack"
            /\ \A k \in DOMAIN bcalls :
                /\ bcalls[k].op \in {"GetResourcesForStack", "DeleteStack",
                                     "AwaitFinalStatus"} => bcalls[k].arg = B
                /\ bcalls[k].op \in {"DeleteS3BucketObjects",
                                     "DeleteS3Bucket"} =>
                       bcalls[k].arg \in Range(bcalls[1].ret)
            /\ Len(deleted) <= Len(drained)
            /\ deleted = SubSeq(drained, 1, Len(deleted))
            /\ WorkflowAtEnd => deleted = drained /\ drained = bcalls[1].ret

\* C24: a bucket workflow calls DeleteStack and AwaitFinalStatus with the
\* name of its own stack only, drains and deletes only ids that
\* GetResourcesForStack returned for that stack, deletes the ids it drained,
\* in the same order, and its steps leave the inventory, the plan and the
\* calls of the other steps as they were.
C24_TouchesOnlyItsStack ==
    [][/\ TouchesOnlyItsStack'
       /\ (bpc # "idle" \/ bpc' # "idle") =>
           /\ calls' = calls
           /\ executors' = executors
           /\ stacks' = stacks
           /\ listed' = listed
           /\ rows' = rows]_vars

\* the workflow of the second of two bucket stacks about to return, its two
\* ids drained and deleted
C24_Witness ==
    /\ WorkflowAtEnd
    /\ idx = 2
    /\ Len(executors) = 2
    /\ executors[1].fn = "bucketTerminator"
    /\ executors[2].owner = stacks[2].name
    /\ Len(ResolvedIds) = 2
    /\ ArgsOf(bcalls, "DeleteS3Bucket") = ResolvedIds
    /\ ArgsOf(bcalls, "DeleteS3BucketObjects") = ResolvedIds

-----------------------------------------------------------------------------
(* Properties of the composites *)

\* the members that return an error
FailingMembers == {k \in DOMAIN cin.fails : cin.fails[k]}

\* the first member to fail, when one does
FirstFailing == CHOOSE k \in FailingMembers : \A j \in FailingMembers : k <= j

\* C16: in the stop-on-error composite, the one NewPurge builds, the members
\* run once each in order up to the first one that fails, no member after it
\* runs, and the composite returns that member's error; when no member fails
\* all of them run in order and the composite returns nil.
C16_StopOnError ==
    cin.by = "NewPurge" =>
        /\ \A k \in DOMAIN cran : cran[k] = k
        /\ Len(cran) <= Len(cin.fails)
        /\ FailingMembers # {} => Len(cran) <= FirstFailing
        /\ cret.returned =>
            IF FailingMembers = {}
            THEN Len(cran) = Len(cin.fails) /\ ~cret.err
            ELSE /\ Len(cran) = FirstFailing
                 /\ cret.err
                 /\ cret.of = FirstFailing

\* three members, the second the first to fail: two have run and the
\* composite has returned the second one's error
C16_Witness ==
    /\ cin.by = "NewPurge"
    /\ cin.fails = <<FALSE, TRUE, FALSE>>
    /\ cret.returned
    /\ cran = <<1, 2>>
    /\ cret.err
    /\ cret.of = 2

-----------------------------------------------------------------------------
(* Properties of the filters *)

\* C6: removeStacksByStatus returns the stacks whose status is none of the
\* given statuses, each once, in their original order; with no status given
\* it returns its input.
C6_ExcludeByStatus ==
    fpc = "removed" =>
        /\ fout = SubseqAt(fin.S,
               {i \in DOMAIN fin.S : fin.S[i].status \notin Range(fin.E)})
        /\ fin.E = <<>> => fout = fin.S

\* two statuses given, a stack removed for the first of them and a stack kept
C6_Witness ==
    /\ fpc = "removed"
    /\ Len(fin.E) = 2
    /\ fin.E[1] # fin.E[2]
    /\ Len(fin.S) = 2
    /\ fin.S[1].status = fin.E[1]
    /\ fout = <<fin.S[2]>>

\* C7: filterStacksByType returns the stacks that carry a type tag whose
\* value equals the given type, each once, in their original order.
C7_SelectByType ==
    fpc = "filtered" =>
        fout = SubseqAt(fin.S,
                   {i \in DOMAIN fin.S :
                       /\ TagHas(fin.S[i].tags, "type")
                       /\ fin.S[i].tags["type"] = fin.T})

\* C8: a stack without a type tag is never in the result of
\* filterStacksByType, for any type, the empty one included.
C8_UntaggedNeverSelected ==
    fpc = "filtered" =>
        \A k \in DOMAIN fout : TagHas(fout[k].tags, "type")

====
